---- MODULE Spec2Model ----
(***************************************************************************)
(* Model of src/src/graph.rs: an undirected adjacency graph whose nodes    *)
(* are Rc<RefCell<Node>> owned by Graph.nodes and whose adjacency lists    *)
(* hold Weak references.  A node is allocated while it has a strong        *)
(* reference: the graph's (membership in nodes) or a caller's handle.  A   *)
(* caller can take a handle of a member at any time (Rc::clone of an       *)
(* element of Graph.nodes), so the handles that matter are those of nodes  *)
(* already removed: held.  A Weak entry upgrades only while its target is  *)
(* allocated.                                                              *)
(***************************************************************************)
EXTENDS Naturals, Integers, Sequences, FiniteSets, TLC

\* Bounds of the model.
MaxNodes == 3      \* number of add_node calls explored
MaxCalls == 8      \* length of the call sequences explored
MaxAfter == 2      \* calls explored on a map once it is built

NumIds == 9        \* node identities available (the largest map and one more)

Ids == 1..NumIds

VARIABLES
    nodes,       \* Graph.nodes : Vec<NodeRef>, a sequence of node identities
    neighbors,   \* Node.neighbors of every node identity : Vec<NodeWeakRef>
    held,        \* removed nodes of which a caller still holds a NodeRef
    created,     \* number of add_node calls made
    removedOk,   \* number of remove_node calls whose handle was a member
    lastOp,      \* the call that produced the current state
    snap,        \* adjacency lists before the add_edge of an add/remove pair
    calls,       \* number of calls made so far
    panicked     \* the last call requested a RefCell borrow that panics

vars == <<nodes, neighbors, held, created, removedOk, lastOp, snap, calls,
          panicked>>

----------------------------------------------------------------------------
\* Helpers

Range(s) == {s[i] : i \in DOMAIN s}

Count(x, s) == Cardinality({i \in DOMAIN s : s[i] = x})

NoDuplicates(s) == \A i, j \in DOMAIN s : s[i] = s[j] => i = j

\* Node identities with a strong count above zero: Weak::upgrade succeeds
\* exactly on these.
Alive == Range(nodes) \cup held

\* The identities add_node has handed out so far: every NodeRef a caller
\* can pass is one of these.
Issued == 1..created

NoLists == [n \in Ids |-> <<>>]

NoOp == [op |-> "new", a |-> 0, b |-> 0, member |-> FALSE, seq |-> FALSE]

\* Node::new: a node starts with an empty neighbors vector.
NodeNew == <<>>

\* Variant of Retain that deletes only the first entry for x.
RetainFirst(list, live, x) ==
    LET hits == {i \in DOMAIN list : list[i] = x}
        first == IF hits = {} THEN 0
                 ELSE CHOOSE i \in hits : \A j \in hits : i <= j
    IN  [i \in 1..(Len(list) - (IF first = 0 THEN 0 ELSE 1)) |->
            IF first = 0 \/ i < first THEN list[i] ELSE list[i + 1]]

\* Variant of Retain with the comparison inverted.
RetainInverted(list, live, x) ==
    SelectSeq(list, LAMBDA w : w \in live /\ w = x)

\* The closure shared by the three retain calls on a neighbors vector:
\* keep an entry iff it upgrades and is not the node x.
Retain(list, live, x) ==
    SelectSeq(list, LAMBDA w : w \in live /\ w # x)

\* Variant of RemoveNodeNodes that pops the last node whatever the handle.
RemoveNodeNodesLast(ns, h) ==
    IF Len(ns) = 0 THEN ns ELSE SubSeq(ns, 1, Len(ns) - 1)

\* Variant of RemoveNodeNodes that moves the last node into the freed slot
\* (Vec::swap_remove).
RemoveNodeNodesSwap(ns, h) ==
    IF h \notin Range(ns) THEN ns
    ELSE LET k == CHOOSE i \in DOMAIN ns : ns[i] = h
         IN  [i \in 1..(Len(ns) - 1) |-> IF i = k THEN ns[Len(ns)] ELSE ns[i]]

\* self.nodes.retain(|n| !Rc::ptr_eq(n, node_ref))
RemoveNodeNodes(ns, h) ==
    SelectSeq(ns, LAMBDA n : n # h)

\* Variant of RemoveNodeNeighbors that compares with the scanned node
\* instead of the removed one.
RemoveNodeNeighborsSelf(nb, ns, live, h) ==
    [n \in Ids |-> IF n \in Range(ns) THEN Retain(nb[n], live, n) ELSE nb[n]]

\* Variant of RemoveNodeNeighbors that scans every allocated node, member
\* of the graph or not.
RemoveNodeNeighborsAll(nb, ns, live, h) ==
    [n \in Ids |-> IF n \in live THEN Retain(nb[n], live, h) ELSE nb[n]]

\* The loop of remove_node over the nodes left in the graph.
RemoveNodeNeighbors(nb, ns, live, h) ==
    [n \in Ids |-> IF n \in Range(ns) THEN Retain(nb[n], live, h) ELSE nb[n]]

\* Variant of AddEdgeNeighbors without the second push.
AddEdgeOneWay(nb, a, b) ==
    [nb EXCEPT ![a] = Append(@, b)]

\* Variant of AddEdgeNeighbors that skips an entry already present.
AddEdgeDedup(nb, a, b) ==
    LET nb1 == IF b \in Range(nb[a]) THEN nb ELSE [nb EXCEPT ![a] = Append(@, b)]
    IN  IF a \in Range(nb1[b]) THEN nb1 ELSE [nb1 EXCEPT ![b] = Append(@, a)]

\* Variant of AddEdgeNeighbors whose second push downgrades node2 again.
AddEdgeSelfPush(nb, a, b) ==
    LET nb1 == [nb EXCEPT ![a] = Append(@, b)]
    IN  [nb1 EXCEPT ![b] = Append(@, b)]

\* add_edge: the two pushes, in order.
AddEdgeNeighbors(nb, a, b) ==
    LET nb1 == [nb EXCEPT ![a] = Append(@, b)]
    IN  [nb1 EXCEPT ![b] = Append(@, a)]

\* Variant of RemoveEdgeNeighbors without the second retain.
RemoveEdgeOneSide(nb, live, a, b) ==
    [nb EXCEPT ![a] = Retain(@, live, b)]

\* Variant of RemoveEdgeNeighbors that deletes one entry per side.
RemoveEdgeFirst(nb, live, a, b) ==
    LET nb1 == [nb EXCEPT ![a] = RetainFirst(@, live, b)]
    IN  [nb1 EXCEPT ![b] = RetainFirst(@, live, a)]

\* Variant of RemoveEdgeNeighbors that deletes the entries for the two
\* nodes from every list.
RemoveEdgeEverywhere(nb, live, a, b) ==
    [n \in Ids |-> Retain(Retain(nb[n], live, a), live, b)]

\* remove_edge: the two retains, in order.
RemoveEdgeNeighbors(nb, live, a, b) ==
    LET nb1 == [nb EXCEPT ![a] = Retain(@, live, b)]
    IN  [nb1 EXCEPT ![b] = Retain(@, live, a)]

----------------------------------------------------------------------------
\* RefCell borrows.  A call is a sequence of events on node cells: "mut"
\* takes the mutable borrow of cell n (borrow_mut), "shr" reads it through
\* a shared borrow (borrow), "rel" drops the RefMut.

Mut(n) == [k |-> "mut", n |-> n]
Shr(n) == [k |-> "shr", n |-> n]
Rel(n) == [k |-> "rel", n |-> n]

\* RefCell's check: borrow_mut and borrow panic on a cell whose mutable
\* borrow is held.
RECURSIVE FaultsFrom(_, _, _)
FaultsFrom(trace, i, busy) ==
    IF i > Len(trace) THEN FALSE
    ELSE LET e == trace[i] IN
         CASE e.k = "rel" -> FaultsFrom(trace, i + 1, busy \ {e.n})
           [] e.k = "shr" -> e.n \in busy \/ FaultsFrom(trace, i + 1, busy)
           [] OTHER       -> e.n \in busy
                             \/ FaultsFrom(trace, i + 1, busy \cup {e.n})

Faults(trace) == FaultsFrom(trace, 1, {})

\* The retain closure: upgrade and ptr_eq use the Rc pointers only, the
\* neighbor's cell is not borrowed.
ClosureBorrows(w) == <<>>

RECURSIVE ClosureBorrowsOver(_, _)
ClosureBorrowsOver(list, live) ==
    IF list = <<>> THEN <<>>
    ELSE (IF Head(list) \in live THEN ClosureBorrows(Head(list)) ELSE <<>>)
         \o ClosureBorrowsOver(Tail(list), live)

\* node.borrow_mut().neighbors.retain(..): the RefMut of n lives for the
\* whole statement, the closure runs under it.
RetainBorrows(n, list, live) ==
    <<Mut(n)>> \o ClosureBorrowsOver(list, live) \o <<Rel(n)>>

\* Variant of AddEdgeBorrows that holds both RefMuts at once.
AddEdgeBorrowsHeld(a, b) == <<Mut(a), Mut(b), Rel(b), Rel(a)>>

\* add_edge: each push statement takes and drops its own RefMut.
AddEdgeBorrows(a, b) == <<Mut(a), Rel(a), Mut(b), Rel(b)>>

\* remove_edge: two retain statements, one after the other.
RemoveEdgeBorrows(nb, live, a, b) ==
    RetainBorrows(a, nb[a], live)
    \o RetainBorrows(b, [nb EXCEPT ![a] = Retain(@, live, b)][b], live)

\* remove_node: one retain statement per node left in the graph.
RECURSIVE RemoveNodeBorrows(_, _, _)
RemoveNodeBorrows(nb, ns, live) ==
    IF ns = <<>> THEN <<>>
    ELSE RetainBorrows(Head(ns), nb[Head(ns)], live)
         \o RemoveNodeBorrows(nb, Tail(ns), live)

----------------------------------------------------------------------------
\* One more call of the sequence.
Step ==
    /\ calls < MaxCalls
    /\ calls' = calls + 1

\* Graph::new
Init ==
    /\ nodes = <<>>
    /\ neighbors = NoLists
    /\ held = {}
    /\ created = 0
    /\ removedOk = 0
    /\ lastOp = NoOp
    /\ snap = NoLists
    /\ calls = 0
    /\ panicked = FALSE

\* Graph::add_node: a fresh Rc is pushed and a clone of it returned; the
\* node is allocated through its membership whatever the caller does with
\* the clone.
AddNodeCall ==
    /\ created < NumIds
    /\ LET id == created + 1 IN
        /\ nodes' = Append(nodes, id)
        /\ neighbors' = [neighbors EXCEPT ![id] = NodeNew]
        /\ held' = held
        /\ lastOp' = [op |-> "add_node", a |-> id, b |-> id, member |-> FALSE, seq |-> FALSE]
    /\ created' = created + 1
    /\ snap' = NoLists
    /\ panicked' = FALSE
    /\ UNCHANGED removedOk

AddNode ==
    /\ created < MaxNodes
    /\ Step
    /\ AddNodeCall

\* Graph::remove_node(&node_ref), node_ref a handle of a member or of a
\* node removed earlier.  The caller's handle outlives the call.
RemoveNodeCall(h) ==
    /\ h \in Alive
    /\ nodes' = RemoveNodeNodes(nodes, h)
    /\ neighbors' = RemoveNodeNeighbors(neighbors, nodes', Alive, h)
    /\ removedOk' = IF h \in Range(nodes) THEN removedOk + 1 ELSE removedOk
    /\ lastOp' = [op |-> "remove_node", a |-> h, b |-> h,
                  member |-> (h \in Range(nodes)),
                  seq |-> (lastOp.op = "remove_node" /\ lastOp.a = h)]
    /\ held' = held \cup {h}
    /\ snap' = NoLists
    /\ panicked' = Faults(RemoveNodeBorrows(neighbors, nodes', Alive))
    /\ UNCHANGED created

RemoveNode(h) ==
    /\ Step
    /\ RemoveNodeCall(h)

\* Graph::add_edge(&node1, &node2)
AddEdgeCall(a, b) ==
    /\ a \in Alive /\ b \in Alive
    /\ neighbors' = AddEdgeNeighbors(neighbors, a, b)
    /\ lastOp' = [op |-> "add_edge", a |-> a, b |-> b, member |-> FALSE, seq |-> FALSE]
    /\ snap' = neighbors
    /\ panicked' = Faults(AddEdgeBorrows(a, b))
    /\ UNCHANGED <<nodes, held, created, removedOk>>

AddEdge(a, b) ==
    /\ Step
    /\ AddEdgeCall(a, b)

\* Graph::remove_edge(&node1, &node2)
RemoveEdgeCall(a, b) ==
    /\ a \in Alive /\ b \in Alive
    /\ neighbors' = RemoveEdgeNeighbors(neighbors, Alive, a, b)
    /\ LET paired == lastOp.op = "add_edge" /\ lastOp.a = a /\ lastOp.b = b IN
        /\ lastOp' = [op |-> "remove_edge", a |-> a, b |-> b, member |-> FALSE, seq |-> paired]
        /\ snap' = IF paired THEN snap ELSE NoLists
    /\ panicked' = Faults(RemoveEdgeBorrows(neighbors, Alive, a, b))
    /\ UNCHANGED <<nodes, held, created, removedOk>>

RemoveEdge(a, b) ==
    /\ Step
    /\ RemoveEdgeCall(a, b)

\* The caller's last NodeRef of a removed node goes out of scope: the
\* strong count reaches zero, the Node is dropped and its neighbors vector
\* with it.
DropHandleCall(h) ==
    /\ h \in held
    /\ held' = held \ {h}
    /\ neighbors' = [neighbors EXCEPT ![h] = <<>>]
    /\ lastOp' = [op |-> "drop", a |-> h, b |-> h, member |-> FALSE, seq |-> FALSE]
    /\ snap' = NoLists
    /\ panicked' = FALSE
    /\ UNCHANGED <<nodes, created, removedOk>>

DropHandle(h) ==
    /\ Step
    /\ DropHandleCall(h)

Next ==
    \/ AddNode
    \/ \E h \in Issued : RemoveNode(h)
    \/ \E a, b \in Issued : AddEdge(a, b)
    \/ \E a, b \in Issued : RemoveEdge(a, b)
    \/ \E h \in Issued : DropHandle(h)

Spec == Init /\ [][Next]_vars

\* Callers that use add_edge as the map builders do: on two distinct nodes
\* of the graph that are not adjacent yet.
Adjacent(a, b) ==
    b \in Range(neighbors[a]) \/ a \in Range(neighbors[b])

AddEdgeSimple(a, b) ==
    /\ a # b
    /\ a \in Range(nodes) /\ b \in Range(nodes)
    /\ ~Adjacent(a, b)
    /\ AddEdge(a, b)

NextSimple ==
    \/ AddNode
    \/ \E h \in Issued : RemoveNode(h)
    \/ \E a, b \in Issued : AddEdgeSimple(a, b)
    \/ \E a, b \in Issued : RemoveEdge(a, b)
    \/ \E h \in Issued : DropHandle(h)

SpecSimple == Init /\ [][NextSimple]_vars

----------------------------------------------------------------------------
\* The sample maps.  add_node hands out the identities in call order, so
\* the handles of the builders are the following identities.
Con == 1
Smy == 2
Ank == 3
Sev == 4
Bla == 5
Eas == 6
Arm == 7
Syr == 8

NewNode(name) == [op |-> "add_node", name |-> name, a |-> 0, b |-> 0]
NewEdge(a, b) == [op |-> "add_edge", name |-> "", a |-> a, b |-> b]

\* Variant of GenTestTurkey without the Ankara-Smyrna edge.
GenTestTurkeyOpen ==
    << NewNode("Constantinople"), NewNode("Smyrna"), NewNode("Ankara"),
       NewEdge(Con, Ank), NewEdge(Con, Smy) >>

\* gen_test_turkey: the calls on the graph, in order.
GenTestTurkey ==
    << NewNode("Constantinople"), NewNode("Smyrna"), NewNode("Ankara"),
       NewEdge(Con, Ank), NewEdge(Con, Smy), NewEdge(Ank, Smy) >>

\* Variant of GenTestTurkeyRegion without the Black Sea-Armenia edge.
GenTestTurkeyRegionShort ==
    << NewNode("Constantinople"), NewNode("Smyrna"), NewNode("Ankara"),
       NewNode("Sevastopol"), NewNode("Black Sea"),
       NewNode("Eastern Mediterranean"), NewNode("Armenia"), NewNode("Syria"),
       NewEdge(Con, Ank), NewEdge(Con, Smy), NewEdge(Con, Bla),
       NewEdge(Ank, Bla), NewEdge(Ank, Smy), NewEdge(Ank, Arm),
       NewEdge(Smy, Eas), NewEdge(Smy, Arm), NewEdge(Smy, Syr),
       NewEdge(Sev, Bla), NewEdge(Sev, Arm),
       NewEdge(Eas, Syr), NewEdge(Arm, Syr) >>

\* gen_test_turkey_region: the calls on the graph, in order.
GenTestTurkeyRegion ==
    << NewNode("Constantinople"), NewNode("Smyrna"), NewNode("Ankara"),
       NewNode("Sevastopol"), NewNode("Black Sea"),
       NewNode("Eastern Mediterranean"), NewNode("Armenia"), NewNode("Syria"),
       NewEdge(Con, Ank), NewEdge(Con, Smy), NewEdge(Con, Bla),
       NewEdge(Ank, Bla), NewEdge(Ank, Smy), NewEdge(Ank, Arm),
       NewEdge(Smy, Eas), NewEdge(Smy, Arm), NewEdge(Smy, Syr),
       NewEdge(Sev, Bla), NewEdge(Sev, Arm),
       NewEdge(Eas, Syr), NewEdge(Bla, Arm), NewEdge(Arm, Syr) >>

\* The add_node and the add_edge calls of a builder.
NodeCalls(script) == SelectSeq(script, LAMBDA c : c.op = "add_node")
EdgeCalls(script) == SelectSeq(script, LAMBDA c : c.op = "add_edge")

\* Node.name of the node with identity id in a map made by a builder.
NodeName(script, id) == NodeCalls(script)[id].name

\* The next call of a builder.
Build(script) ==
    /\ calls < Len(script)
    /\ calls' = calls + 1
    /\ LET c == script[calls + 1] IN
         IF c.op = "add_node" THEN AddNodeCall ELSE AddEdgeCall(c.a, c.b)

\* One more call on the map the builder returned.
After(script) ==
    /\ calls >= Len(script)
    /\ calls < Len(script) + MaxAfter
    /\ calls' = calls + 1

NextTurkey ==
    \/ Build(GenTestTurkey)
    \/ After(GenTestTurkey) /\ AddNodeCall
    \/ \E h \in Issued : After(GenTestTurkey) /\ RemoveNodeCall(h)
    \/ \E a, b \in Issued : After(GenTestTurkey) /\ AddEdgeCall(a, b)
    \/ \E a, b \in Issued : After(GenTestTurkey) /\ RemoveEdgeCall(a, b)
    \/ \E h \in Issued : After(GenTestTurkey) /\ DropHandleCall(h)

SpecTurkey == Init /\ [][NextTurkey]_vars

NextRegion ==
    \/ Build(GenTestTurkeyRegion)
    \/ After(GenTestTurkeyRegion) /\ AddNodeCall
    \/ \E h \in Issued : After(GenTestTurkeyRegion) /\ RemoveNodeCall(h)
    \/ \E a, b \in Issued : After(GenTestTurkeyRegion) /\ AddEdgeCall(a, b)
    \/ \E a, b \in Issued : After(GenTestTurkeyRegion) /\ RemoveEdgeCall(a, b)
    \/ \E h \in Issued : After(GenTestTurkeyRegion) /\ DropHandleCall(h)

SpecRegion == Init /\ [][NextRegion]_vars

----------------------------------------------------------------------------
TypeOK ==
    /\ nodes \in Seq(Ids) /\ NoDuplicates(nodes)
    /\ \A n \in Ids : Range(neighbors[n]) \subseteq Ids
    /\ held \subseteq Ids /\ held \cap Range(nodes) = {}
    /\ created \in 0..NumIds
    /\ removedOk \in 0..created
    /\ calls \in Nat
    /\ panicked \in BOOLEAN

----------------------------------------------------------------------------
\* Properties

\* The entries of a list whose target is still allocated.
LiveOnly(list) == SelectSeq(list, LAMBDA w : w \in Alive)

\* C1: every adjacency entry held by a node of the graph's node collection
\* targets a node that is also in the node collection.
C1_AdjacencyTargetsAreMembers ==
    \A n \in Range(nodes) : Range(neighbors[n]) \subseteq Range(nodes)

\* C2: in the state right after remove_node(h), no node remaining in the
\* node collection holds an adjacency entry for h.
C2_RemovedNodeNotReferenced ==
    lastOp.op = "remove_node" =>
        \A n \in Range(nodes) : Count(lastOp.a, neighbors[n]) = 0

\* remove_node(h) has just removed a member h that had a duplicate edge to
\* a node still in the graph, or a self-loop next to an edge to such a node.
C2_Witness ==
    /\ lastOp.op = "remove_node" /\ lastOp.member
    /\ \E n \in Range(nodes) :
         /\ Count(n, neighbors[lastOp.a]) >= 1
         /\ Len(neighbors[lastOp.a]) >= 2
         /\ neighbors[n] = <<>>

\* C3: remove_node(h) with h not a member of the node collection leaves the
\* node collection and the adjacency list of every node of the graph as
\* they were.
C3_RemoveAbsentIsNoOp ==
    [][(lastOp'.op = "remove_node" /\ ~lastOp'.member) =>
          /\ nodes' = nodes
          /\ \A n \in Range(nodes) : neighbors'[n] = neighbors[n]]_vars

\* C4: a second remove_node(h) right after a remove_node(h) changes neither
\* the node collection nor any adjacency list.
C4_RemoveNodeIdempotent ==
    [][(lastOp'.op = "remove_node" /\ lastOp'.seq) =>
          /\ nodes' = nodes
          /\ neighbors' = neighbors
          /\ held' = held]_vars

\* remove_node(h) was called twice in a row on a node h that had been
\* connected to a node that is still in the graph.
C4_Witness ==
    /\ lastOp.op = "remove_node" /\ lastOp.seq
    /\ lastOp.a \notin Range(nodes)
    /\ \E n \in Range(nodes) : Count(n, neighbors[lastOp.a]) >= 1

\* C5: for all nodes a and b of the node collection, a's adjacency list has
\* an entry for b iff b's adjacency list has an entry for a.
C5_AdjacencySymmetric ==
    \A a, b \in Range(nodes) :
        (b \in Range(neighbors[a])) <=> (a \in Range(neighbors[b]))

\* Two distinct nodes of the graph are adjacent, after the removal of a
\* third node that was a member.
C5_Witness ==
    /\ lastOp.op = "remove_node" /\ lastOp.member
    /\ \E a, b \in Range(nodes) :
         a # b /\ b \in Range(neighbors[a]) /\ a \in Range(neighbors[b])

\* C6 (as stated): when no adjacency list holds a duplicate entry,
\* add_edge(a,b) immediately followed by remove_edge(a,b) on two nodes of
\* the graph leaves the lists of a and b as they were before the add_edge.
C6_RoundTripAsStated ==
    (/\ lastOp.op = "remove_edge" /\ lastOp.seq
     /\ lastOp.a \in Range(nodes) /\ lastOp.b \in Range(nodes)
     /\ \A n \in Ids : NoDuplicates(snap[n]))
    => /\ neighbors[lastOp.a] = snap[lastOp.a]
       /\ neighbors[lastOp.b] = snap[lastOp.b]

\* C6 (amended): when moreover a and b are not adjacent before the
\* add_edge, the pair leaves the lists of a and b as they were before the
\* add_edge, less the entries whose target has been deallocated.
C6_RoundTrip ==
    (/\ lastOp.op = "remove_edge" /\ lastOp.seq
     /\ lastOp.a \in Range(nodes) /\ lastOp.b \in Range(nodes)
     /\ \A n \in Ids : NoDuplicates(snap[n])
     /\ Count(lastOp.b, snap[lastOp.a]) = 0
     /\ Count(lastOp.a, snap[lastOp.b]) = 0)
    => /\ neighbors[lastOp.a] = LiveOnly(snap[lastOp.a])
       /\ neighbors[lastOp.b] = LiveOnly(snap[lastOp.b])

\* The pair add_edge(a,b), remove_edge(a,b) has run on two distinct,
\* non-adjacent nodes of the graph, a having another neighbor.
C6_Witness ==
    /\ lastOp.op = "remove_edge" /\ lastOp.seq
    /\ lastOp.a # lastOp.b
    /\ lastOp.a \in Range(nodes) /\ lastOp.b \in Range(nodes)
    /\ \A n \in Ids : NoDuplicates(snap[n])
    /\ Count(lastOp.b, snap[lastOp.a]) = 0
    /\ Count(lastOp.a, snap[lastOp.b]) = 0
    /\ snap[lastOp.a] # <<>>
    /\ neighbors[lastOp.a] = snap[lastOp.a]

\* C7: remove_edge(a,b) leaves no entry for b in a's list and none for a in
\* b's list; when there was none before, the entries of every adjacency
\* list that point to allocated nodes are unchanged.
C7_RemoveEdgeRemovesAll ==
    [][lastOp'.op = "remove_edge" =>
          LET a == lastOp'.a
              b == lastOp'.b
          IN  /\ Count(b, neighbors'[a]) = 0
              /\ Count(a, neighbors'[b]) = 0
              /\ (Count(b, neighbors[a]) = 0 /\ Count(a, neighbors[b]) = 0)
                 => \A n \in Ids :
                       LiveOnly(neighbors'[n]) = LiveOnly(neighbors[n])]_vars

\* remove_edge(a,b) has run where the lists of a and b held two entries for
\* each other.
C7_Witness ==
    /\ lastOp.op = "remove_edge" /\ lastOp.seq
    /\ lastOp.a # lastOp.b
    /\ Count(lastOp.b, snap[lastOp.a]) = 1
    /\ Count(lastOp.a, snap[lastOp.b]) = 1
    /\ neighbors[lastOp.a] = <<>> /\ neighbors[lastOp.b] = <<>>

\* C8 (as stated): add_edge(a,b) on two nodes connected by one edge, then
\* one remove_edge(a,b), leaves exactly one entry for b in a's list and one
\* for a in b's list.
C8_OneResidualEntry ==
    (/\ lastOp.op = "remove_edge" /\ lastOp.seq
     /\ lastOp.a # lastOp.b
     /\ Count(lastOp.b, snap[lastOp.a]) = 1
     /\ Count(lastOp.a, snap[lastOp.b]) = 1)
    => /\ Count(lastOp.b, neighbors[lastOp.a]) = 1
       /\ Count(lastOp.a, neighbors[lastOp.b]) = 1

\* C8 (amended): add_edge(a,b) on two nodes connected by one edge, then one
\* remove_edge(a,b), leaves no entry for b in a's list and none for a in
\* b's list.
C8_NoResidualEntry ==
    (/\ lastOp.op = "remove_edge" /\ lastOp.seq
     /\ lastOp.a # lastOp.b
     /\ Count(lastOp.b, snap[lastOp.a]) = 1
     /\ Count(lastOp.a, snap[lastOp.b]) = 1)
    => /\ Count(lastOp.b, neighbors[lastOp.a]) = 0
       /\ Count(lastOp.a, neighbors[lastOp.b]) = 0

\* The duplicate add_edge(a,b) and the remove_edge(a,b) have run on two
\* nodes of the graph that were connected by one edge.
C8_Witness ==
    /\ lastOp.op = "remove_edge" /\ lastOp.seq
    /\ lastOp.a # lastOp.b
    /\ lastOp.a \in Range(nodes) /\ lastOp.b \in Range(nodes)
    /\ Count(lastOp.b, snap[lastOp.a]) = 1
    /\ Count(lastOp.a, snap[lastOp.b]) = 1

\* C9: add_edge(a,b) with a # b appends exactly one entry for b to a's list
\* and one for a to b's list, also when the pair is already connected: the
\* second of two calls in a row on an unconnected pair leaves two entries
\* per side.
C9_AddEdgeAppendsWithoutDedup ==
    [][(lastOp'.op = "add_edge" /\ lastOp'.a # lastOp'.b) =>
          LET a == lastOp'.a
              b == lastOp'.b
          IN  /\ neighbors'[a] = Append(neighbors[a], b)
              /\ neighbors'[b] = Append(neighbors[b], a)
              /\ (/\ lastOp.op = "add_edge" /\ lastOp.a = a /\ lastOp.b = b
                  /\ Count(b, snap[a]) = 0 /\ Count(a, snap[b]) = 0)
                 => /\ Count(b, neighbors'[a]) = 2
                    /\ Count(a, neighbors'[b]) = 2]_vars

\* add_edge(a,b) has run on a pair that was already connected.
C9_Witness ==
    /\ lastOp.op = "add_edge" /\ lastOp.a # lastOp.b
    /\ Count(lastOp.b, snap[lastOp.a]) = 1
    /\ Count(lastOp.a, snap[lastOp.b]) = 1
    /\ Count(lastOp.b, neighbors[lastOp.a]) = 2
    /\ Count(lastOp.a, neighbors[lastOp.b]) = 2

\* C10: the node count equals the number of add_node calls minus the number
\* of remove_node calls on a member; each add_node raises the count by one
\* and inserts a new node with an empty adjacency list.
C10_NodeCount ==
    /\ [](Len(nodes) = created - removedOk)
    /\ [][lastOp'.op = "add_node" =>
            /\ Len(nodes') = Len(nodes) + 1
            /\ lastOp'.a \notin Range(nodes)
            /\ nodes' = Append(nodes, lastOp'.a)
            /\ neighbors'[lastOp'.a] = <<>>]_vars

\* Several nodes were added, one was removed, and a remove_node on a handle
\* that is no longer a member has just run.
C10_Witness ==
    /\ created >= 2 /\ removedOk >= 1 /\ Len(nodes) >= 1
    /\ lastOp.op = "remove_node" /\ ~lastOp.member

\* The number of entries of a list whose target has been deallocated.
StaleCount(list) == Len(list) - Len(LiveOnly(list))

\* C11 (as stated): remove_node(h) on a member h lowers the node count by
\* one and shortens by exactly one the list of every node that was a
\* neighbor of h.
C11_NeighborsLoseOneEntry ==
    [][(lastOp'.op = "remove_node" /\ lastOp'.member) =>
          /\ Len(nodes') = Len(nodes) - 1
          /\ \A n \in Range(nodes') :
                Count(lastOp'.a, neighbors[n]) >= 1
                => Len(neighbors'[n]) = Len(neighbors[n]) - 1]_vars

\* C11 (amended): remove_node(h) on a member h lowers the node count by
\* one and shortens the list of every remaining node by the number of
\* entries it held for h plus the number of its entries whose target has
\* been deallocated.
C11_NeighborsLoseTheirEntries ==
    [][(lastOp'.op = "remove_node" /\ lastOp'.member) =>
          /\ Len(nodes') = Len(nodes) - 1
          /\ \A n \in Range(nodes') :
                Len(neighbors'[n]) =
                    Len(neighbors[n]) - Count(lastOp'.a, neighbors[n])
                                      - StaleCount(neighbors[n])]_vars

\* remove_node(h) has removed a member h to which a remaining node was
\* connected by two edges.
C11_Witness ==
    /\ lastOp.op = "remove_node" /\ lastOp.member
    /\ \E n \in Range(nodes) :
         /\ n # lastOp.a
         /\ Count(n, neighbors[lastOp.a]) = 2
         /\ neighbors[n] = <<>>

\* C18: add_edge(a,b) and remove_edge(a,b) leave the node collection and
\* the adjacency list of every node other than a and b unchanged; add_node
\* leaves the adjacency list of every existing node unchanged.
C18_EdgeAndAddNodeFrame ==
    [][/\ lastOp'.op \in {"add_edge", "remove_edge"} =>
            /\ nodes' = nodes
            /\ \A n \in Ids \ {lastOp'.a, lastOp'.b} :
                  neighbors'[n] = neighbors[n]
       /\ lastOp'.op = "add_node" =>
            \A n \in Ids \ {lastOp'.a} : neighbors'[n] = neighbors[n]]_vars

\* remove_edge(a,b) has run while a third node of the graph held an entry
\* for a or for b.
C18_Witness ==
    /\ lastOp.op = "remove_edge" /\ lastOp.a # lastOp.b
    /\ \E n \in Range(nodes) \ {lastOp.a, lastOp.b} :
         Range(neighbors[n]) \cap {lastOp.a, lastOp.b} # {}

\* C19: remove_node(h) keeps the remaining nodes in their previous relative
\* order, and the list of every remaining node is its previous list with
\* the entries for h and the entries whose target is deallocated deleted,
\* the others in the same order.
C19_RemoveNodeFrame ==
    [][lastOp'.op = "remove_node" =>
          /\ nodes' = SelectSeq(nodes, LAMBDA n : n # lastOp'.a)
          /\ \A n \in Range(nodes') :
                neighbors'[n] =
                    SelectSeq(neighbors[n],
                              LAMBDA w : w # lastOp'.a /\ w \in Alive)]_vars

\* remove_node(h) has removed the first of three nodes, and a remaining
\* node keeps an entry for another node after losing its entry for h.
C19_Witness ==
    /\ lastOp.op = "remove_node" /\ lastOp.member
    /\ Len(nodes) = 2 /\ lastOp.a < nodes[1] /\ nodes[1] < nodes[2]
    /\ \E n \in Range(nodes) :
         /\ Count(n, neighbors[lastOp.a]) >= 1
         /\ neighbors[n] # <<>>

\* C20: remove_node(h) leaves h's own adjacency list as it was, and the
\* list of every removed node a caller still holds; no node of the graph
\* lists h afterwards, whatever h lists.
C20_RemovedNodeKeepsItsList ==
    [][lastOp'.op = "remove_node" =>
          /\ neighbors'[lastOp'.a] = neighbors[lastOp'.a]
          /\ \A x \in held : neighbors'[x] = neighbors[x]
          /\ \A n \in Range(nodes') : Count(lastOp'.a, neighbors'[n]) = 0]_vars

\* A removed node h still lists n, remove_node(n) has just run, and no
\* node lists h.
C20_Witness ==
    /\ lastOp.op = "remove_node" /\ lastOp.member
    /\ \E h \in held \ {lastOp.a} :
         /\ Count(lastOp.a, neighbors[h]) >= 1
         /\ \A n \in Ids : Count(h, neighbors[n]) = 0

\* C12: no call panics, whatever handles it is given: no RefCell borrow is
\* requested on a node whose mutable borrow is still held.
C12_NoPanic ==
    panicked = FALSE

\* add_edge(h,h) and remove_edge(h,h) have run on the handle of a removed
\* node, the retain closure having met h's entries for itself under h's
\* own mutable borrow.
C12_Witness ==
    /\ lastOp.op = "remove_edge" /\ lastOp.seq
    /\ lastOp.a = lastOp.b
    /\ lastOp.a \in held
    /\ ~panicked

\* C13: when every add_edge call is made on two distinct nodes of the graph
\* that are not adjacent, no adjacency list ever holds an entry for its own
\* node nor two entries for the same node.
C13_SimpleGraph ==
    \A n \in Ids :
        /\ n \notin Range(neighbors[n])
        /\ NoDuplicates(neighbors[n])

\* Three nodes of the graph are connected pairwise, the last edge having
\* just been added.
C13_Witness ==
    /\ lastOp.op = "add_edge"
    /\ Len(nodes) = 3
    /\ \A n \in Range(nodes) : Len(neighbors[n]) = 2

\* The number of adjacency entries of all lists together.
RECURSIVE SumLen(_, _)
SumLen(nb, S) ==
    IF S = {} THEN 0
    ELSE LET n == CHOOSE m \in S : TRUE IN Len(nb[n]) + SumLen(nb, S \ {n})

TotalEntries == SumLen(neighbors, Ids)

\* C14 (as stated): the map built by gen_test_turkey_region has 8 nodes and
\* 13 edges: 13 add_edge calls, 26 adjacency entries in total.
C14_RegionThirteenEdges ==
    calls = Len(GenTestTurkeyRegion) =>
        /\ Len(nodes) = 8
        /\ Len(EdgeCalls(GenTestTurkeyRegion)) = 13
        /\ TotalEntries = 26

\* C14 (amended): the map built by gen_test_turkey_region has 8 nodes and
\* 14 edges: 14 add_edge calls, 28 adjacency entries in total.
C14_RegionFourteenEdges ==
    calls = Len(GenTestTurkeyRegion) =>
        /\ Len(nodes) = 8
        /\ Len(EdgeCalls(GenTestTurkeyRegion)) = 14
        /\ TotalEntries = 28

\* gen_test_turkey_region has made its last call, add_edge(arm, syr).
C14_Witness ==
    /\ calls = Len(GenTestTurkeyRegion)
    /\ lastOp.op = "add_edge" /\ lastOp.a = Arm /\ lastOp.b = Syr
    /\ Len(nodes) = 8

\* C15: the map built by gen_test_turkey holds exactly the three nodes
\* Constantinople, Ankara and Smyrna, and each of them has exactly two
\* adjacency entries, one for each of the other two.
C15_TurkeyTriangle ==
    calls = Len(GenTestTurkey) =>
        /\ Len(nodes) = 3
        /\ Cardinality(Range(nodes)) = 3
        /\ {NodeName(GenTestTurkey, n) : n \in Range(nodes)}
              = {"Constantinople", "Ankara", "Smyrna"}
        /\ \A n \in Range(nodes) :
              /\ Len(neighbors[n]) = 2
              /\ Range(neighbors[n]) = Range(nodes) \ {n}

\* gen_test_turkey has made its last call, add_edge(ank, smy).
C15_Witness ==
    /\ calls = Len(GenTestTurkey)
    /\ lastOp.op = "add_edge" /\ lastOp.a = Ank /\ lastOp.b = Smy
    /\ nodes = <<Con, Smy, Ank>>

\* C16: after remove_node(Ankara) on the map built by gen_test_turkey the
\* node count is 2, and Constantinople and Smyrna each hold exactly one
\* adjacency entry, for the other one, and none for Ankara.
C16_TurkeyWithoutAnkara ==
    (/\ calls = Len(GenTestTurkey) + 1
     /\ lastOp.op = "remove_node" /\ lastOp.a = Ank)
    => /\ Len(nodes) = 2
       /\ Range(nodes) = {Con, Smy}
       /\ neighbors[Con] = <<Smy>>
       /\ neighbors[Smy] = <<Con>>
       /\ \A n \in Range(nodes) : Count(Ank, neighbors[n]) = 0

\* remove_node(ank) has run as the first call on the Turkey map.
C16_Witness ==
    /\ calls = Len(GenTestTurkey) + 1
    /\ lastOp.op = "remove_node" /\ lastOp.a = Ank /\ lastOp.member
    /\ NodeName(GenTestTurkey, Ank) = "Ankara"
    /\ Ank \in held

\* C17: in the map built by gen_test_turkey_region the neighbors of Black
\* Sea are exactly Constantinople, Ankara, Sevastopol and Armenia, each
\* once, and Black Sea is listed once by each of these four and by no
\* other node.
C17_BlackSeaNeighbors ==
    calls = Len(GenTestTurkeyRegion) =>
        /\ NodeName(GenTestTurkeyRegion, Bla) = "Black Sea"
        /\ {NodeName(GenTestTurkeyRegion, n) : n \in Range(neighbors[Bla])}
              = {"Constantinople", "Ankara", "Sevastopol", "Armenia"}
        /\ Len(neighbors[Bla]) = 4
        /\ \A n \in Range(nodes) :
              Count(Bla, neighbors[n]) =
                  IF n \in Range(neighbors[Bla]) THEN 1 ELSE 0

\* The regional map is complete and Black Sea has its four neighbors.
C17_Witness ==
    /\ calls = Len(GenTestTurkeyRegion)
    /\ Bla \in Range(nodes)
    /\ Range(neighbors[Bla]) = {Con, Ank, Sev, Arm}

====
